---------------------------- MODULE Spec2Model ----------------------------
(***************************************************************************)
(* Brightside Shopify assistant backend.                                   *)
(*                                                                         *)
(*   MemoryStore   (Backend Query DB/memory_store.py)  session histories   *)
(*   chat route    (Backend Query DB/chat_route.py)    POST /chat handler  *)
(*   ChatLLM       (chat_llm.py)                       orchestrator        *)
(*   QdrantClient  (my_qdrant_utils.py)                vector search       *)
(*                                                                         *)
(* Python values are modelled as follows.  A str is a sequence of          *)
(* one-character strings; None (where a str or a list is expected) is the  *)
(* distinguished value None.  A dict is a record whose DOMAIN is the set   *)
(* of its keys; a value that is not a dict is the record NotADict.         *)
(***************************************************************************)
EXTENDS Integers, Sequences, FiniteSets, TLC

-----------------------------------------------------------------------------
(* Bounds of the model *)

\* turns the store holds, over all sessions, in a run of SpecStore
MaxTurns == 2

\* requests (or direct orchestrator calls) received in one run
MaxRequests == 2

\* hits the catalog index returns for one search
MaxHits == 2

-----------------------------------------------------------------------------
(* Python values *)

None == <<"None">>

\* bool(x) of a str or list value
Truthy(x) == x # None /\ x # <<>>

NotADict == [nondict |-> TRUE]

PyNone == [none |-> TRUE]

IsDict(m) == "nondict" \notin DOMAIN m /\ "none" \notin DOMAIN m

\* bool(x) of a dict, a list standing where a dict is expected, or None
TruthyObj(x) == x # PyNone /\ (IsDict(x) => DOMAIN x # {"emptydict"})

\* d.get(k, default)
Get(d, k, default) == IF k \in DOMAIN d THEN d[k] ELSE default

Whitespace == {" ", "\n", "\t"}

\* str.strip()
RECURSIVE LStrip(_)
LStrip(s) == IF s # <<>> /\ Head(s) \in Whitespace THEN LStrip(Tail(s)) ELSE s

RECURSIVE RStrip(_)
RStrip(s) ==
    IF s # <<>> /\ s[Len(s)] \in Whitespace THEN RStrip(SubSeq(s, 1, Len(s) - 1)) ELSE s

Strip(s) == RStrip(LStrip(s))

UpperToLower ==
    [c \in {"A", "C", "L", "R", "S", "T"} |->
        CASE c = "A" -> "a" [] c = "C" -> "c" [] c = "L" -> "l"
          [] c = "R" -> "r" [] c = "S" -> "s" [] c = "T" -> "t"]

\* str.lower()
Lower(s) ==
    [i \in 1..Len(s) |-> IF s[i] \in DOMAIN UpperToLower THEN UpperToLower[s[i]] ELSE s[i]]

\* kw in s (substring test)
In(kw, s) ==
    \E i \in 1..(Len(s) - Len(kw) + 1) : SubSeq(s, i, i + Len(kw) - 1) = kw

\* session ids a client may send, and the uuid4 strings create_session draws
ClientSids == {"s1"}

UuidSeq == <<"u1", "u2">>

Uuids == {UuidSeq[i] : i \in DOMAIN UuidSeq}

Sids == ClientSids \cup Uuids

NoSid == "None"

HI == <<"h", "i">>

YO == <<"y", "o">>

\* turns offered to add_message: a well-formed one, one whose role and content
\* are the empty str, one whose content is None, dicts that miss a key, and a
\* value that is no dict
Turns ==
    { [role |-> "user", content |-> HI],
      [role |-> "", content |-> <<>>],
      [role |-> "user", content |-> None],
      [role |-> "user"],
      [content |-> HI],
      NotADict }

\* quiz answers offered to store_quiz_answers
QuizDict == [health_goals |-> <<"energy">>]

NotADictQuiz == [nondict |-> TRUE, items |-> <<"x">>]

EmptyDict == [emptydict |-> TRUE]

\* a list where a str or a list is expected and None is given
NoneList == None

\* reply texts the generation model may produce
T_OK == <<"o", "k">>

T_TRY == <<" ", "T", "r", "y", " ">>

Texts == {T_OK, T_TRY}

\* the question the model may put in a tool call
QUESTION == <<"s", "l", "e", "e", "p">>

-----------------------------------------------------------------------------
(* State *)

VARIABLES
    store,          \* MemoryStore._store: session id -> list of turns
    quiz_answers,   \* MemoryStore._quiz_answers: session id -> answers
    appended,       \* per session id, the turns of the add_message calls that
                    \* returned normally since the last clear_session of it
    ret,            \* outcome of the last MemoryStore API call made directly
    req,            \* the requests being handled, by slot
    served          \* requests received so far

vars == <<store, quiz_answers, appended, ret, req, served>>

-----------------------------------------------------------------------------
(* MemoryStore: each method as a function of the store it acts on *)

\* uuid.uuid4(): a string no session has yet (the first unused one; NoSid
\* when the model has run out of them)
uuid4(st) ==
    LET unused == {i \in DOMAIN UuidSeq : UuidSeq[i] \notin DOMAIN st}
    IN  IF unused = {} THEN NoSid
        ELSE UuidSeq[CHOOSE i \in unused : \A j \in unused : i <= j]

\* create_session: a fresh uuid4 string mapped to an empty list
create_session(st, uuid) == st @@ (uuid :> <<>>)

add_message_known_only(st, session_id, message) ==
    IF session_id \notin DOMAIN st \/ ~IsDict(message)
       \/ "role" \notin DOMAIN message \/ "content" \notin DOMAIN message
    THEN [raised |-> TRUE, store |-> st]
    ELSE [raised |-> message.content = None,
          store |-> [st EXCEPT ![session_id] = Append(@, message)]]

\* add_message: the session is created first when unknown, then the message
\* is validated (ValueError), then appended; the debug line that follows the
\* append slices the content, message['content'][:50], which raises TypeError
\* when the content is None
add_message(st, session_id, message) ==
    LET st1 == IF session_id \in DOMAIN st THEN st ELSE st @@ (session_id :> <<>>)
    IN  IF ~IsDict(message) \/ "role" \notin DOMAIN message
                            \/ "content" \notin DOMAIN message
        THEN [raised |-> TRUE, store |-> st1]
        ELSE [raised |-> message.content = None,
              store |-> [st1 EXCEPT ![session_id] = Append(@, message)]]

get_messages_none(st, session_id) ==
    IF session_id \notin DOMAIN st THEN None ELSE st[session_id]

\* get_messages: the list of a known session, [] otherwise
get_messages(st, session_id) ==
    IF session_id \notin DOMAIN st THEN <<>> ELSE st[session_id]

clear_session_all(st, session_id) ==
    IF session_id \in DOMAIN st THEN [s \in DOMAIN st |-> <<>>] ELSE st

clear_session_creates(st, session_id) ==
    IF session_id \in DOMAIN st THEN [st EXCEPT ![session_id] = <<>>]
    ELSE st @@ (session_id :> <<>>)

clear_session_forget(st, session_id) ==
    [s \in DOMAIN st \ {session_id} |-> st[s]]

\* clear_session: a known session is rebound to a new empty list
clear_session(st, session_id) ==
    IF session_id \in DOMAIN st THEN [st EXCEPT ![session_id] = <<>>] ELSE st

\* get_all_sessions
get_all_sessions(st) == DOMAIN st

store_quiz_answers_merge(qa, session_id, answers) ==
    IF ~IsDict(answers)
    THEN [raised |-> TRUE, quiz_answers |-> qa]
    ELSE [raised |-> FALSE,
          quiz_answers |-> [s \in DOMAIN qa \cup {session_id} |->
                               IF s # session_id THEN qa[s]
                               ELSE IF s \in DOMAIN qa THEN answers @@ qa[s]
                               ELSE answers]]

\* store_quiz_answers: ValueError unless answers is a dict
store_quiz_answers(qa, session_id, answers) ==
    IF ~IsDict(answers)
    THEN [raised |-> TRUE, quiz_answers |-> qa]
    ELSE [raised |-> FALSE,
          quiz_answers |-> [s \in DOMAIN qa \cup {session_id} |->
                               IF s = session_id THEN answers ELSE qa[s]]]

\* get_quiz_answers: self._quiz_answers.get(session_id)
get_quiz_answers(qa, session_id) ==
    IF session_id \in DOMAIN qa THEN qa[session_id] ELSE PyNone

-----------------------------------------------------------------------------
(* Direct calls of the MemoryStore API *)

\* ids a caller can pass: any string of its own, or a uuid already drawn
Callable == ClientSids \cup (DOMAIN store \cap Uuids)

\* turns the store holds, over all sessions
TotalTurns == LET RECURSIVE Sum(_)
                  Sum(S) == IF S = {} THEN 0
                            ELSE LET s == CHOOSE x \in S : TRUE
                                 IN Len(store[s]) + Sum(S \ {s})
              IN Sum(DOMAIN store)

CallCreateSession ==
    \E u \in {uuid4(store)} \ {NoSid} :
        /\ store' = create_session(store, u)
        /\ ret' = [op |-> "create_session", sid |-> u, raised |-> FALSE]
        /\ UNCHANGED <<quiz_answers, appended, req, served>>

CallAddMessage ==
    \E sid \in Callable, m \in Turns :
        LET r == add_message(store, sid, m)
        IN  /\ TotalTurns < MaxTurns
            /\ store' = r.store
            /\ appended' = IF r.raised THEN appended
                           ELSE [appended EXCEPT ![sid] = Append(@, m)]
            /\ ret' = [op |-> "add_message", sid |-> sid, raised |-> r.raised]
            /\ UNCHANGED <<quiz_answers, req, served>>

\* add_message called with a well-formed turn
CallAppendTurn ==
    \E sid \in Callable :
        LET m == [role |-> "user", content |-> HI]
            r == add_message(store, sid, m)
        IN  /\ TotalTurns < MaxTurns
            /\ store' = r.store
            /\ appended' = [appended EXCEPT ![sid] = Append(@, m)]
            /\ ret' = [op |-> "add_message", sid |-> sid, raised |-> r.raised]
            /\ UNCHANGED <<quiz_answers, req, served>>

CallGetMessages ==
    \E sid \in Callable :
        /\ ret' = [op |-> "get_messages", sid |-> sid, raised |-> FALSE,
                   value |-> get_messages(store, sid)]
        /\ UNCHANGED <<store, quiz_answers, appended, req, served>>

CallClearSession ==
    \E sid \in Callable :
        /\ store' = clear_session(store, sid)
        /\ appended' = [appended EXCEPT ![sid] = <<>>]
        /\ ret' = [op |-> "clear_session", sid |-> sid, raised |-> FALSE]
        /\ UNCHANGED <<quiz_answers, req, served>>

CallStoreQuizAnswers ==
    \E sid \in Callable, a \in {QuizDict, NotADictQuiz} :
        LET r == store_quiz_answers(quiz_answers, sid, a)
        IN  /\ quiz_answers' = r.quiz_answers
            /\ ret' = [op |-> "store_quiz_answers", sid |-> sid, raised |-> r.raised]
            /\ UNCHANGED <<store, appended, req, served>>

\* store_quiz_answers called with any of several answers
SymptomsDict == [symptoms |-> <<"fatigue">>]

ContextArgs == {QuizDict, SymptomsDict, EmptyDict, NotADictQuiz}

CallStoreContext(args) ==
    \E sid \in Callable, a \in args :
        LET r == store_quiz_answers(quiz_answers, sid, a)
        IN  /\ quiz_answers' = r.quiz_answers
            /\ ret' = [op |-> "store_quiz_answers", sid |-> sid,
                       raised |-> r.raised, answers |-> a]
            /\ UNCHANGED <<store, appended, req, served>>

CallGetQuizAnswers ==
    \E sid \in Callable :
        /\ ret' = [op |-> "get_quiz_answers", sid |-> sid, raised |-> FALSE,
                   value |-> get_quiz_answers(quiz_answers, sid)]
        /\ UNCHANGED <<store, quiz_answers, appended, req, served>>

-----------------------------------------------------------------------------
(* Prompt Builder: chat_route.build_system_prompt.  A prompt is the sequence   *)
(* of the pieces the code concatenates.                                        *)

\* base_prompt, which is also chat_llm.DEFAULT_SYSTEM_PROMPT
DEFAULT_SYSTEM_PROMPT == <<"You are a helpful and friendly supplement recommendation assistant. ...">>

\* sep.join(xs)
RECURSIVE Join(_, _)
Join(sep, xs) ==
    IF xs = <<>> THEN <<>>
    ELSE IF Len(xs) = 1 THEN <<xs[1]>>
    ELSE <<xs[1], sep>> \o Join(sep, Tail(xs))

build_system_prompt_top_level_dietary(quiz) ==
    IF ~TruthyObj(quiz) THEN DEFAULT_SYSTEM_PROMPT
    ELSE
      LET health_goals == Get(quiz, "health_goals", <<>>)
          symptoms     == Get(quiz, "symptoms", <<>>)
          dietary      == Get(quiz, "dietary", <<>>)
          context ==
              (IF health_goals # <<>>
               THEN <<"Health goals: ">> \o Join(", ", health_goals) \o <<"\n">> ELSE <<>>)
              \o (IF symptoms # <<>>
                  THEN <<"Current symptoms: ">> \o Join(", ", symptoms) \o <<"\n">> ELSE <<>>)
              \o (IF dietary # <<>>
                  THEN <<"Dietary preferences: ">> \o Join(", ", dietary) \o <<"\n">> ELSE <<>>)
      IN  IF context # <<>>
          THEN DEFAULT_SYSTEM_PROMPT \o <<"\n\nAdditional context:\n">>
               \o SubSeq(context, 1, Len(context) - 1)
          ELSE DEFAULT_SYSTEM_PROMPT

build_system_prompt(quiz) ==
    IF ~TruthyObj(quiz) THEN DEFAULT_SYSTEM_PROMPT
    ELSE
      LET health_goals == Get(quiz, "health_goals", <<>>)
          symptoms     == Get(quiz, "symptoms", <<>>)
          preferences  == Get(quiz, "preferences", EmptyDict)
          dietary      == IF TruthyObj(preferences)
                          THEN Get(preferences, "dietary", <<>>) ELSE <<>>
          context ==
              (IF health_goals # <<>>
               THEN << <<"Health goals: ">> \o Join(", ", health_goals) >> ELSE <<>>)
              \o (IF symptoms # <<>>
                  THEN << <<"Current symptoms: ">> \o Join(", ", symptoms) >> ELSE <<>>)
              \o (IF dietary # <<>>
                  THEN << <<"Dietary preferences: ">> \o Join(", ", dietary) >> ELSE <<>>)
          RECURSIVE Flat(_)
          Flat(ls) == IF ls = <<>> THEN <<>>
                      ELSE IF Len(ls) = 1 THEN ls[1]
                      ELSE ls[1] \o <<"\n">> \o Flat(Tail(ls))
      IN  IF context # <<>>
          THEN DEFAULT_SYSTEM_PROMPT \o <<"\n\nAdditional context:\n">> \o Flat(context)
          ELSE DEFAULT_SYSTEM_PROMPT

\* contexts offered to build_system_prompt: None, the empty dict, and dicts
\* in which each category is absent, empty or holds values; a dietary list
\* may also sit at the top level, outside preferences
PromptContexts ==
    LET Opt(key, values) == {<<>>} \cup {key :> v : v \in values}
        dicts ==
            { h @@ y @@ pr @@ d :
                h  \in Opt("health_goals", {<<>>, <<"energy">>, <<"energy", "sleep">>}),
                y  \in Opt("symptoms", {<<>>, <<"fatigue">>, <<"fatigue", "stress">>}),
                pr \in Opt("preferences",
                           {EmptyDict, [dietary |-> <<>>], [dietary |-> <<"vegan">>],
                            [dietary |-> <<"vegan", "keto">>], [budget |-> <<"low">>]}),
                d  \in Opt("dietary", {<<"paleo">>}) }
    IN  {PyNone} \cup {IF DOMAIN c = {} THEN EmptyDict ELSE c : c \in dicts}

CallBuildSystemPrompt ==
    \E c \in PromptContexts :
        /\ ret' = [op |-> "build_system_prompt", sid |-> NoSid, raised |-> FALSE,
                   context |-> c, value |-> build_system_prompt(c)]
        /\ UNCHANGED <<store, quiz_answers, appended, req, served>>

-----------------------------------------------------------------------------
(* External collaborators: what a call of each may produce *)

\* exceptions, with whether the failure is of the transient/network class
APIConnectionError == [type |-> "APIConnectionError", transient |-> TRUE]

BadRequestError == [type |-> "BadRequestError", transient |-> FALSE]

AttributeError == [type |-> "AttributeError", transient |-> FALSE]

SyntaxError == [type |-> "SyntaxError", transient |-> FALSE]

TypeError == [type |-> "TypeError", transient |-> FALSE]

NoExc == [type |-> "None", transient |-> FALSE]

NoArgs == [shape |-> "none", question |-> None]

NoCall == [name |-> "None", arguments |-> NoArgs]

\* argument payloads of a tool call: a mapping with a question, with an empty
\* one, with none; a value that is no mapping; text that does not parse
ArgPayloads ==
    { [shape |-> "mapping", question |-> QUESTION],
      [shape |-> "mapping", question |-> <<>>],
      [shape |-> "mapping", question |-> None],
      [shape |-> "nonmapping", question |-> None],
      [shape |-> "malformed", question |-> None] }

NoMessage == [content |-> None, function_call |-> NoCall, absent |-> TRUE]

\* the first generation call: it fails, or answers with a message that carries
\* text, nothing, or a tool call
GenFirstFull ==
    {[kind |-> "error", exc |-> e, message |-> NoMessage] :
        e \in {APIConnectionError, BadRequestError}}
    \cup {[kind |-> "message", exc |-> NoExc,
           message |-> [content |-> t, function_call |-> NoCall]] :
            t \in Texts \cup {None}}
    \cup {[kind |-> "message", exc |-> NoExc,
           message |-> [content |-> None,
                        function_call |-> [name |-> n, arguments |-> a]]] :
            n \in {"query_supplements"}, a \in ArgPayloads}
    \cup {[kind |-> "message", exc |-> NoExc,
           message |-> [content |-> None,
                        function_call |-> [name |-> "get_weather", arguments |-> a]]] :
            a \in {[shape |-> "nonmapping", question |-> None]}}

\* the second generation call declares no tool
GenSecondFull ==
    {[kind |-> "error", exc |-> e, message |-> NoMessage] :
        e \in {APIConnectionError}}
    \cup {[kind |-> "message", exc |-> NoExc,
           message |-> [content |-> t, function_call |-> NoCall]] :
            t \in Texts \cup {None}}

GenFirstLite ==
    { [kind |-> "error", exc |-> APIConnectionError, message |-> NoMessage],
      [kind |-> "message", exc |-> NoExc,
       message |-> [content |-> T_TRY, function_call |-> NoCall]],
      [kind |-> "message", exc |-> NoExc,
       message |-> [content |-> None,
                    function_call |-> [name |-> "query_supplements",
                                       arguments |-> [shape |-> "mapping",
                                                      question |-> QUESTION]]]] }

GenSecondLite ==
    { [kind |-> "error", exc |-> APIConnectionError, message |-> NoMessage],
      [kind |-> "message", exc |-> NoExc,
       message |-> [content |-> T_OK, function_call |-> NoCall]] }

\* dimensionality of the catalog index (text-embedding-3-small) and of
\* another embedding model
VectorSize == 1536

NoVector == [of |-> None, dim |-> 0]

\* Embedder().embed_text(text): it fails, or returns a vector for text, of
\* the index's dimensionality or of another model's
EmbedFull ==
    {[raised |-> TRUE, dim |-> 0]}
    \cup {[raised |-> FALSE, dim |-> d] : d \in {VectorSize, 2 * VectorSize}}

EmbedLite == {[raised |-> FALSE, dim |-> VectorSize]}

\* the vector embed_text returns for text
Vector(text, e) == [of |-> text, dim |-> e.dim]

\* raw hits of the index: payload ids, and whether Product(...) accepts the hit
Hits == { [id |-> "p1", valid |-> TRUE],
          [id |-> "p2", valid |-> TRUE],
          [id |-> "bad", valid |-> FALSE] }

HitLists == UNION {[1..n -> Hits] : n \in 0..MaxHits}

\* the catalog index: get_collection fails or tells the dimensionality,
\* search fails or returns hits in the backend's order
BackendFull ==
    {[collection_raised |-> TRUE, collection_dim |-> 0, search_raised |-> FALSE, hits |-> <<>>]}
    \cup {[collection_raised |-> FALSE, collection_dim |-> VectorSize,
           search_raised |-> TRUE, hits |-> <<>>]}
    \cup {[collection_raised |-> FALSE, collection_dim |-> VectorSize,
           search_raised |-> FALSE, hits |-> h] : h \in HitLists}

BackendLite ==
    {[collection_raised |-> FALSE, collection_dim |-> VectorSize,
      search_raised |-> FALSE, hits |-> h] : h \in {<<>>, <<[id |-> "p1", valid |-> TRUE]>>}}

-----------------------------------------------------------------------------
(* Vector Search Adapter: QdrantClient.query_qdrant *)

RECURSIVE to_products_stop_at_bad(_)
to_products_stop_at_bad(hits) ==
    IF hits = <<>> \/ ~Head(hits).valid THEN <<>>
    ELSE <<Head(hits).id>> \o to_products_stop_at_bad(Tail(hits))

\* the Product models of the hits that convert, in the order of the hits
RECURSIVE to_products(_)
to_products(hits) ==
    IF hits = <<>> THEN <<>>
    ELSE (IF Head(hits).valid THEN <<Head(hits).id>> ELSE <<>>) \o to_products(Tail(hits))

\* self.client.search(..., limit=limit): the index returns its best hits, at
\* most limit of them
search(backend, limit) ==
    SubSeq(backend.hits, 1, IF Len(backend.hits) < limit THEN Len(backend.hits) ELSE limit)

\* query_qdrant(query_vector, limit) against a backend; get_collection and
\* search are the calls it makes to the backend
query_qdrant(query_vector, limit, backend) ==
    IF backend.collection_raised
    THEN [raised |-> TRUE, exc |-> "ResponseHandlingException", products |-> <<>>,
          n_get_collection |-> 1, n_search |-> 0]
    ELSE IF backend.collection_dim # query_vector.dim
    THEN [raised |-> TRUE, exc |-> "ValueError", products |-> <<>>,
          n_get_collection |-> 1, n_search |-> 0]
    ELSE IF backend.search_raised
    THEN [raised |-> TRUE, exc |-> "ResponseHandlingException", products |-> <<>>,
          n_get_collection |-> 1, n_search |-> 1]
    ELSE [raised |-> FALSE, exc |-> "None", n_get_collection |-> 1, n_search |-> 1,
          products |-> to_products(search(backend, limit))]

\* limit: int = 3
DefaultLimit == 3

\* query_qdrant called directly: query vectors of the configured
\* dimensionality, of another and of none (the empty list), limits, and
\* indexes that were created with the configured dimensionality or with another
DirectVectors == {[of |-> QUESTION, dim |-> d] : d \in {0, VectorSize, 2 * VectorSize}}

DirectHitLists == UNION {[1..n -> Hits] : n \in 0..(MaxHits + 1)}

DirectBackends ==
    {[collection_raised |-> TRUE, collection_dim |-> 0, search_raised |-> FALSE, hits |-> <<>>]}
    \cup {[collection_raised |-> FALSE, collection_dim |-> d,
           search_raised |-> TRUE, hits |-> <<>>] : d \in {VectorSize, 2 * VectorSize}}
    \cup {[collection_raised |-> FALSE, collection_dim |-> d,
           search_raised |-> FALSE, hits |-> h] :
              d \in {VectorSize, 2 * VectorSize}, h \in DirectHitLists}

CallQueryQdrant ==
    \E v \in DirectVectors, limit \in 1..DefaultLimit, b \in DirectBackends :
        LET q == query_qdrant(v, limit, b)
        IN  /\ ret' = [op |-> "query_qdrant", sid |-> NoSid, raised |-> q.raised,
                       exc |-> q.exc, query_vector |-> v, limit |-> limit,
                       collection_dim |-> IF b.collection_raised THEN 0
                                          ELSE b.collection_dim,
                       returned |-> IF q.n_search = 1 /\ ~b.search_raised
                                    THEN search(b, limit) ELSE <<>>,
                       products |-> q.products,
                       n_get_collection |-> q.n_get_collection,
                       n_search |-> q.n_search]
            /\ UNCHANGED <<store, quiz_answers, appended, req, served>>

-----------------------------------------------------------------------------
(* Orchestrator: ChatLLM *)

\* stop_after_attempt(3)
MaxAttempts == 3

\* limit=3 of the query_qdrant call
Limit == 3

KEYWORDS ==
    { <<"r", "e", "c", "o", "m", "m", "e", "n", "d">>,
      <<"s", "u", "g", "g", "e", "s", "t">>,
      <<"t", "r", "y">>,
      <<"c", "o", "n", "s", "i", "d", "e", "r">>,
      <<"l", "o", "o", "k", " ", "a", "t">> }

\* ChatResponse(...); the fields a caller leaves out are None / False
ChatResponse(content, recommend, products, function_called, function_name) ==
    [role |-> "assistant", content |-> content, recommend |-> recommend,
     products |-> products, function_called |-> function_called,
     function_name |-> function_name]

NoResponse ==
    [role |-> "None", content |-> None, recommend |-> FALSE, products |-> NoneList,
     function_called |-> FALSE, function_name |-> "None"]

\* ChatMessage(role, content, timestamp=datetime.utcnow()).dict()
ChatMessage(role, content) ==
    [role |-> role, content |-> content, timestamp |-> "utcnow"]

\* _format_messages: the system turn, the history's role and content, the
\* current user message
_format_messages(message, chat_history, system_prompt) ==
    <<[role |-> "system",
       content |-> IF Truthy(system_prompt) THEN system_prompt
                   ELSE DEFAULT_SYSTEM_PROMPT]>>
    \o [i \in 1..Len(chat_history) |->
           [role |-> chat_history[i].role, content |-> chat_history[i].content]]
    \o <<[role |-> "user", content |-> message]>>

\* str(products)
Str(products) == <<"[">> \o products \o <<"]">>

should_recommend_case_sensitive(products, generated_text) ==
    \/ Truthy(products)
    \/ \E keyword \in KEYWORDS : In(keyword, generated_text)

\* should_recommend of a reply
should_recommend(products, generated_text) ==
    \/ Truthy(products)
    \/ \E keyword \in KEYWORDS : In(keyword, Lower(generated_text))

-----------------------------------------------------------------------------
(* A request in flight: the locals of chat() and of generate_chat_response,  *)
(* and what the request has done so far.                                     *)

NoSearch == [query_vector |-> NoVector, limit |-> 0, called |-> FALSE]

NoOut == [kind |-> "none", status |-> 0, response |-> NoResponse]

IdleReq ==
    [ caller |-> "none",        \* "route": chat(); "direct": a call of generate_chat_response
      pc |-> "idle",            \* idle, gen1, embed, gen2 (awaiting that call), sleep, done
      nomsg |-> FALSE,          \* the request body supplied no user message
      message |-> None,
      session_id |-> NoSid,     \* as given by the client
      quiz_in |-> PyNone,       \* as given by the client
      sid |-> NoSid,
      created |-> FALSE,        \* create_session was called for this request
      chat_history |-> [live |-> FALSE, sid |-> NoSid, val |-> <<>>],
      system_prompt |-> None,
      attempt |-> 0,
      messages |-> <<>>,        \* of the current attempt
      first_messages |-> <<>>,  \* as sent in the first call of the current attempt
      fmsg |-> NoMessage,       \* the first call's response message of the current attempt
      products |-> NoneList,
      search_args |-> NoSearch, \* the query_qdrant call of the current attempt
      tool_exc |-> "none",      \* what failed inside the tool in the current attempt
      last_text |-> None,       \* content of the message the reply was made from
      resp1 |-> NoMessage,      \* the response to the request's first generation call
      last_exc |-> NoExc,       \* the exception that ended the latest failed attempt
      n_gen1 |-> 0, n_gen2 |-> 0, n_embed |-> 0,
      n_get_collection |-> 0, n_search |-> 0,
      n_transient |-> 0,        \* attempts ended by a transient generation failure
      llm |-> "none",           \* generate_chat_response: pending, returned, raised
      out |-> NoOut ]

\* the list chat_history refers to: the route passes the store's own list
\* object of the session (get_messages returns it, not a copy); val is then
\* what the list held when get_messages returned it
History(m) ==
    IF m.rq.chat_history.live THEN m.store[m.rq.chat_history.sid]
    ELSE m.rq.chat_history.val

APOLOGY == <<"I'm sorry, I'm having trouble generating a response right now.">>

route_finish_unstored(m, raised, response) ==
    [m EXCEPT !.rq = [m.rq EXCEPT
                         !.pc = "done",
                         !.llm = IF raised THEN "raised" ELSE "returned",
                         !.out = [kind |-> "reply", status |-> 200,
                                  response |-> IF raised
                                      THEN ChatResponse(APOLOGY, FALSE, NoneList, FALSE, "None")
                                      ELSE response]]]

route_finish_reraise(m, raised, response) ==
    IF raised
    THEN [m EXCEPT !.rq = [m.rq EXCEPT
                              !.pc = "done", !.llm = "raised",
                              !.out = [kind |-> "http_error", status |-> 500,
                                       response |-> NoResponse]]]
    ELSE LET turn == ChatMessage("assistant", response.content)
         IN  [m EXCEPT !.store = [@ EXCEPT ![m.rq.sid] = Append(@, turn)],
                       !.appended = [@ EXCEPT ![m.rq.sid] = Append(@, turn)],
                       !.rq = [m.rq EXCEPT
                                  !.pc = "done", !.llm = "returned",
                                  !.out = [kind |-> "reply", status |-> 200,
                                           response |-> response]]]

route_finish_stale(m, raised, response) ==
    LET resp == IF raised
                THEN ChatResponse(APOLOGY, FALSE, NoneList, FALSE, "None")
                ELSE response
        turn == ChatMessage("assistant", resp.content)
        seen == SubSeq(m.store[m.rq.sid], 1, Len(m.rq.first_messages) - 2)
    IN  [m EXCEPT !.store = [@ EXCEPT ![m.rq.sid] = Append(seen, turn)],
                  !.appended = [@ EXCEPT ![m.rq.sid] = Append(@, turn)],
                  !.rq = [m.rq EXCEPT
                             !.pc = "done",
                             !.llm = IF raised THEN "raised" ELSE "returned",
                             !.out = [kind |-> "reply", status |-> 200,
                                      response |-> resp]]]

\* chat(), from the return (or the exception) of generate_chat_response on:
\* the canned reply on an exception, the assistant turn, the response
route_finish(m, raised, response) ==
    LET resp == IF raised
                THEN ChatResponse(APOLOGY, FALSE, NoneList, FALSE, "None")
                ELSE response
        turn == ChatMessage("assistant", resp.content)
        am   == add_message(m.store, m.rq.sid, turn)
    IN  [m EXCEPT !.store = am.store,
                  !.appended = IF am.raised THEN @
                               ELSE [@ EXCEPT ![m.rq.sid] = Append(@, turn)],
                  !.rq = [m.rq EXCEPT
                             !.pc = "done",
                             !.llm = IF raised THEN "raised" ELSE "returned",
                             !.out = IF am.raised
                                     THEN [kind |-> "http_error", status |-> 500,
                                           response |-> NoResponse]
                                     ELSE [kind |-> "reply", status |-> 200,
                                           response |-> resp]]]

\* generate_chat_response returns to, or raises into, its caller
Complete(m, raised, response) ==
    IF m.rq.caller = "route" THEN route_finish(m, raised, response)
    ELSE [m EXCEPT !.rq = [m.rq EXCEPT
                              !.pc = "done",
                              !.llm = IF raised THEN "raised" ELSE "returned",
                              !.out = [kind |-> IF raised THEN "raised" ELSE "returned",
                                       status |-> 0, response |-> response]]]

\* tenacity's default retry condition: any Exception
retry_if_any_exception(exc) == TRUE

Raise_six_attempts(m, exc) ==
    LET rq1 == [m.rq EXCEPT !.last_exc = exc,
                            !.n_transient = IF exc.transient THEN @ + 1 ELSE @]
    IN  IF rq1.attempt < 2 * MaxAttempts
        THEN [m EXCEPT !.rq = [rq1 EXCEPT !.pc = "sleep"]]
        ELSE Complete([m EXCEPT !.rq = rq1], TRUE, NoResponse)

Raise_one_more(m, exc) ==
    LET rq1 == [m.rq EXCEPT !.last_exc = exc,
                            !.n_transient = IF exc.transient THEN @ + 1 ELSE @]
    IN  IF rq1.attempt <= MaxAttempts
        THEN [m EXCEPT !.rq = [rq1 EXCEPT !.pc = "sleep"]]
        ELSE Complete([m EXCEPT !.rq = rq1], TRUE, NoResponse)

\* an exception leaves generate_chat_response's body (logged and re-raised,
\* lines 240-242) and reaches the @retry decorator: wait and run the body
\* again, or after stop_after_attempt(3) raise RetryError to the caller
Raise(m, exc) ==
    LET rq1 == [m.rq EXCEPT !.last_exc = exc,
                            !.n_transient = IF exc.transient THEN @ + 1 ELSE @]
    IN  IF retry_if_any_exception(exc) /\ rq1.attempt < MaxAttempts
        THEN [m EXCEPT !.rq = [rq1 EXCEPT !.pc = "sleep"]]
        ELSE Complete([m EXCEPT !.rq = rq1], TRUE, NoResponse)

\* one run of the body, up to the first generation call (lines 159-175)
StartAttempt(m) ==
    LET rq1 == [m.rq EXCEPT !.attempt = @ + 1, !.llm = "pending",
                            !.messages = <<>>, !.first_messages = <<>>,
                            !.fmsg = NoMessage, !.products = NoneList,
                            !.search_args = NoSearch, !.tool_exc = "none",
                            !.last_text = None]
    IN  IF rq1.message = None
        THEN Raise([m EXCEPT !.rq = rq1], TypeError)     \* message[:100]
        ELSE LET msgs == _format_messages(rq1.message, History(m), rq1.system_prompt)
             IN  [m EXCEPT !.rq = [rq1 EXCEPT !.pc = "gen1", !.messages = msgs,
                                              !.first_messages = msgs,
                                              !.n_gen1 = @ + 1]]

generated_text_unstripped(content) == content

\* response.choices[0].message.content.strip()
generated_text_of(content) == Strip(content)

\* the reply (lines 208-238)
Finalize(m, generated_text, products, function_called, function_name) ==
    Complete(m, FALSE,
             ChatResponse(generated_text, should_recommend(products, generated_text),
                          products, function_called, function_name))

\* the tool's result is folded into the message list and the second
\* generation call is issued (lines 190-203)
IssueSecond(m, products) ==
    [m EXCEPT !.rq = [m.rq EXCEPT
        !.pc = "gen2",
        !.products = products,
        !.messages = @ \o <<m.rq.fmsg,
                            [role |-> "function",
                             name |-> m.rq.fmsg.function_call.name,
                             content |-> Str(products)]>>,
        !.n_gen2 = @ + 1]]

\* the first generation call has returned o (lines 168-206, and
\* _handle_function_call up to the embedding call)
gen1_returns(m, o) ==
    LET m1 == [m EXCEPT !.rq = [m.rq EXCEPT
                   !.resp1 = IF m.rq.attempt = 1 THEN o.message ELSE @,
                   !.fmsg = o.message]]
        fc == o.message.function_call
        question == fc.arguments.question
    IN  IF o.kind = "error" THEN Raise(m1, o.exc)
        ELSE IF fc # NoCall
        THEN IF fc.arguments.shape = "malformed"
             THEN Raise(m1, SyntaxError)                 \* eval(arguments)
             ELSE IF fc.name = "query_supplements"
             THEN IF fc.arguments.shape # "mapping"
                  THEN Raise(m1, AttributeError)         \* function_args.get
                  ELSE IF ~Truthy(question)
                  THEN IssueSecond(m1, <<>>)
                  ELSE [m1 EXCEPT !.rq = [m1.rq EXCEPT !.pc = "embed",
                                                        !.n_embed = @ + 1]]
             ELSE IssueSecond(m1, <<>>)                  \* unknown function
        ELSE IF o.message.content = None
        THEN Raise(m1, AttributeError)                   \* None.strip()
        ELSE Finalize([m1 EXCEPT !.rq = [m1.rq EXCEPT !.last_text = o.message.content]],
                      generated_text_of(o.message.content), NoneList, FALSE, "None")

embedded_text_user_message(rq) == rq.message

\* the text _handle_function_call embeds
embedded_text(rq) == rq.fmsg.function_call.arguments.question

\* the embedding call has returned e; query_qdrant runs against backend b;
\* every exception is caught and turned into [] (lines 115-131)
embed_returns(m, e, b) ==
    IF e.raised
    THEN IssueSecond([m EXCEPT !.rq = [m.rq EXCEPT !.tool_exc = "embed"]], <<>>)
    ELSE LET query_vector == Vector(embedded_text(m.rq), e)
             q == query_qdrant(query_vector, Limit, b)
             m1 == [m EXCEPT !.rq = [m.rq EXCEPT
                       !.search_args = [query_vector |-> query_vector, limit |-> Limit,
                                        called |-> TRUE],
                       !.n_get_collection = @ + q.n_get_collection,
                       !.n_search = @ + q.n_search,
                       !.tool_exc = IF q.raised THEN "search" ELSE "none"]]
         IN  IssueSecond(m1, IF q.raised THEN <<>> ELSE q.products)

\* the second generation call has returned o (lines 198-204)
gen2_returns(m, o) ==
    IF o.kind = "error" THEN Raise(m, o.exc)
    ELSE IF o.message.content = None THEN Raise(m, AttributeError)
    ELSE Finalize([m EXCEPT !.rq = [m.rq EXCEPT !.last_text = o.message.content]],
                  generated_text_of(o.message.content), m.rq.products, TRUE,
                  m.rq.fmsg.function_call.name)

-----------------------------------------------------------------------------
(* chat route *)

\* request bodies: message and messages may be absent
BodyParts ==
    { [message |-> <<>>], [message |-> HI],
      [messages |-> <<>>],
      [messages |-> <<[role |-> "user", content |-> YO]>>],
      [messages |-> <<[role |-> "user", content |-> <<>>]>>],
      [message |-> <<>>, messages |-> <<[role |-> "user", content |-> YO]>>],
      [client_id |-> "c1"] }

Bodies ==
    { part @@ [session_id |-> s, quiz_answers |-> q] :
        part \in BodyParts, s \in {NoSid} \cup ClientSids,
        q \in {PyNone, QuizDict, NotADictQuiz} }

\* lines 75-84: message, or the content of the last element of messages
route_message(data) ==
    LET message == Get(data, "message", None)
    IN  IF ~Truthy(message) /\ "messages" \in DOMAIN data /\ Len(data.messages) > 0
        THEN Get(data.messages[Len(data.messages)], "content", None)
        ELSE message

http_error(rq) ==
    [rq EXCEPT !.pc = "done",
               !.out = [kind |-> "http_error", status |-> 500, response |-> NoResponse]]

\* chat() once the message is known to be there: the session, the user
\* turn, the quiz answers, the prompt, the first generation call (lines 89-142)
chat_accept(m, data, rq0) ==
    LET create == data.session_id = NoSid
        sid == IF create THEN uuid4(m.store) ELSE data.session_id
        st1 == IF create THEN create_session(m.store, sid) ELSE m.store
        turn == ChatMessage("user", rq0.message)
        am == add_message(st1, sid, turn)
        ap1 == IF am.raised THEN m.appended
               ELSE [m.appended EXCEPT ![sid] = Append(@, turn)]
        sq == IF TruthyObj(data.quiz_answers)
              THEN store_quiz_answers(m.quiz_answers, sid, data.quiz_answers)
              ELSE [raised |-> FALSE, quiz_answers |-> m.quiz_answers]
        rq1 == [rq0 EXCEPT !.sid = sid, !.created = create]
    IN  IF am.raised
        THEN [m EXCEPT !.store = am.store, !.rq = http_error(rq1)]
        ELSE IF sq.raised
        THEN [m EXCEPT !.store = am.store, !.appended = ap1, !.rq = http_error(rq1)]
        ELSE StartAttempt(
               [m EXCEPT
                  !.store = am.store, !.appended = ap1,
                  !.quiz_answers = sq.quiz_answers,
                  !.rq = [rq1 EXCEPT
                            !.chat_history = [live |-> TRUE, sid |-> sid,
                                              val |-> get_messages(am.store, sid)],
                            !.system_prompt =
                                build_system_prompt(
                                    get_quiz_answers(sq.quiz_answers, sid))]])

\* the request as chat() first sees it
NewRequest(data, nomsg) ==
    [IdleReq EXCEPT !.caller = "route", !.message = route_message(data),
                    !.nomsg = nomsg,
                    !.session_id = data.session_id,
                    !.quiz_in = data.quiz_answers]

chat_unvalidated(m, data, nomsg) == chat_accept(m, data, NewRequest(data, nomsg))

\* chat(), from the parsed body to the first generation call (lines 67-142):
\* without a message, HTTPException(422), which the handler's own
\* except Exception (line 174) turns into a 500
chat(m, data, nomsg) ==
    IF ~Truthy(route_message(data))
    THEN [m EXCEPT !.rq = http_error(NewRequest(data, nomsg))]
    ELSE chat_accept(m, data, NewRequest(data, nomsg))

-----------------------------------------------------------------------------
(* Steps of a request.  A request runs from one await to the next without   *)
(* interruption (one event loop); each action below is one such stretch.    *)

Reqs == {1, 2}

\* the machine a request's step acts on
M(r) == [rq |-> req[r], store |-> store, quiz_answers |-> quiz_answers,
         appended |-> appended]

Apply(r, m) ==
    /\ req' = [req EXCEPT ![r] = m.rq]
    /\ store' = m.store
    /\ quiz_answers' = m.quiz_answers
    /\ appended' = m.appended

InFlight(r) == req[r].pc \notin {"idle", "done"}

\* the body carries no user message: no message, and no messages list whose
\* last element has content
SuppliesNoMessage(data) ==
    /\ "message" \in DOMAIN data => data.message \in {None, <<>>}
    /\ "messages" \in DOMAIN data =>
          \/ data.messages = <<>>
          \/ "content" \notin DOMAIN data.messages[Len(data.messages)]
          \/ data.messages[Len(data.messages)].content \in {None, <<>>}

\* POST /chat arrives while no other request is in flight
ChatReceive(r) ==
    /\ served < MaxRequests
    /\ \A q \in Reqs : ~InFlight(q)
    /\ \E data \in Bodies :
          /\ data.session_id = NoSid /\ ~SuppliesNoMessage(data) => uuid4(store) # NoSid
          /\ Apply(r, chat(M(r), data, SuppliesNoMessage(data)))
    /\ served' = served + 1
    /\ UNCHANGED ret

\* requests that bring, or do not bring, quiz answers
ContextBodies ==
    { [message |-> HI, session_id |-> s, quiz_answers |-> q] :
        s \in {NoSid} \cup Sids,
        q \in {PyNone} \cup ContextArgs }

\* requests of a new session or of a client's session
IsoBodies ==
    { data \in ContextBodies : /\ data.quiz_answers \in {PyNone, SymptomsDict}
                               /\ data.session_id \in {NoSid} \cup ClientSids }

ChatReceiveContext(r, bodies) ==
    /\ served < MaxRequests
    /\ \A q \in Reqs : ~InFlight(q)
    /\ \E data \in bodies :
          /\ data.session_id \in {NoSid} \cup Callable
          /\ data.session_id = NoSid => uuid4(store) # NoSid
          /\ Apply(r, chat(M(r), data, SuppliesNoMessage(data)))
    /\ served' = served + 1
    /\ UNCHANGED ret

\* the generation model answers with text
GenFirstText ==
    { [kind |-> "message", exc |-> NoExc,
       message |-> [content |-> T_OK, function_call |-> NoCall]] }

\* requests of several clients for the same session
ConcBodies ==
    { [message |-> t, session_id |-> sid, quiz_answers |-> PyNone] :
        t \in {HI, YO}, sid \in ClientSids }

\* what the second generation call and the index answer to those requests
GenSecondConc ==
    { [kind |-> "message", exc |-> NoExc,
       message |-> [content |-> T_OK, function_call |-> NoCall]] }

BackendConc ==
    { [collection_raised |-> FALSE, collection_dim |-> VectorSize,
       search_raised |-> FALSE, hits |-> <<[id |-> "p1", valid |-> TRUE]>>] }

\* POST /chat arrives, whatever the other requests are doing
ChatReceiveConcurrent(r) ==
    /\ served < MaxRequests
    /\ ~InFlight(r)
    /\ \E data \in ConcBodies : Apply(r, chat(M(r), data, SuppliesNoMessage(data)))
    /\ served' = served + 1
    /\ UNCHANGED ret

\* generate_chat_response is called directly, with a str message (which may
\* be empty), a history and a system prompt
DirectArgs ==
    { [chat_history |-> <<>>, system_prompt |-> None],
      [chat_history |-> <<ChatMessage("user", YO), ChatMessage("assistant", T_OK)>>,
       system_prompt |-> <<"Be brief.">>] }

CallGenerate(r) ==
    /\ served < MaxRequests
    /\ \A q \in Reqs : ~InFlight(q)
    /\ \E message \in {HI, <<>>}, a \in DirectArgs :
          Apply(r, StartAttempt(
                     [M(r) EXCEPT !.rq = [IdleReq EXCEPT
                         !.caller = "direct", !.message = message,
                         !.chat_history = [live |-> FALSE, sid |-> NoSid,
                                           val |-> a.chat_history],
                         !.system_prompt = a.system_prompt]]))
    /\ served' = served + 1
    /\ UNCHANGED ret

Gen1Returns(r, outcomes) ==
    /\ req[r].pc = "gen1"
    /\ \E o \in outcomes : Apply(r, gen1_returns(M(r), o))
    /\ UNCHANGED <<served, ret>>

EmbedReturns(r, embeds, backends) ==
    /\ req[r].pc = "embed"
    /\ \E e \in embeds :
          \E b \in IF e.raised THEN {CHOOSE x \in backends : TRUE} ELSE backends :
              Apply(r, embed_returns(M(r), e, b))
    /\ UNCHANGED <<served, ret>>

Gen2Returns(r, outcomes) ==
    /\ req[r].pc = "gen2"
    /\ \E o \in outcomes : Apply(r, gen2_returns(M(r), o))
    /\ UNCHANGED <<served, ret>>

\* the backoff wait is over: the body runs again
RetryWake(r) ==
    /\ req[r].pc = "sleep"
    /\ Apply(r, StartAttempt(M(r)))
    /\ UNCHANGED <<served, ret>>

-----------------------------------------------------------------------------
(* Specifications *)

Init ==
    /\ store = <<>>
    /\ quiz_answers = <<>>
    /\ appended = [s \in Sids |-> <<>>]
    /\ ret = [op |-> "init", sid |-> NoSid, raised |-> FALSE]
    /\ req = [r \in Reqs |-> IdleReq]
    /\ served = 0

NextStore ==
    \/ CallCreateSession
    \/ CallAddMessage
    \/ CallGetMessages
    \/ CallClearSession
    \/ CallStoreQuizAnswers
    \/ CallGetQuizAnswers

SpecStore == Init /\ [][NextStore]_vars

\* the stored context: direct calls of the two quiz methods, and requests
\* through the route, one at a time
NextContext ==
    \/ CallStoreContext(ContextArgs)
    \/ CallGetQuizAnswers
    \/ ChatReceiveContext(1, ContextBodies)
    \/ Gen1Returns(1, GenFirstText)

SpecContext == Init /\ [][NextContext]_vars

\* no request is being handled
Quiet == \A q \in Reqs : ~InFlight(q)

\* the store's operations and requests through the route, one at a time,
\* over several sessions
NextIso ==
    \/ Quiet /\ CallCreateSession
    \/ Quiet /\ CallAppendTurn
    \/ Quiet /\ CallClearSession
    \/ Quiet /\ CallStoreContext({QuizDict})
    \/ ChatReceiveContext(1, IsoBodies)
    \/ Gen1Returns(1, GenFirstText)

SpecIso == Init /\ [][NextIso]_vars

\* calls of build_system_prompt
NextPrompt == CallBuildSystemPrompt

SpecPrompt == Init /\ [][NextPrompt]_vars

\* calls of query_qdrant against every behaviour of the catalog index
NextSearch == CallQueryQdrant

SpecSearch == Init /\ [][NextSearch]_vars

\* POST /chat requests, handled one at a time
Next ==
    \/ ChatReceive(1)
    \/ Gen1Returns(1, GenFirstLite)
    \/ EmbedReturns(1, EmbedLite, BackendLite)
    \/ Gen2Returns(1, GenSecondLite)
    \/ RetryWake(1)

Spec == Init /\ [][Next]_vars

\* requests with a message and no quiz answers
LiveBodies == { data \in IsoBodies : data.quiz_answers = PyNone }

\* the embedding call fails, or returns a vector of the index's dimensionality
EmbedLive == { e \in EmbedFull : e.dim # 2 * VectorSize }

\* every external call eventually returns or fails, and every backoff wait
\* ends: the await a request in flight is suspended at (one at a time) is
\* eventually resumed
Fairness ==
    WF_vars(\/ Gen1Returns(1, GenFirstLite)
            \/ EmbedReturns(1, EmbedLive, BackendConc)
            \/ Gen2Returns(1, GenSecondLite)
            \/ RetryWake(1))

\* POST /chat requests with a message, handled one at a time
NextLive ==
    \/ ChatReceiveContext(1, LiveBodies)
    \/ Gen1Returns(1, GenFirstLite)
    \/ EmbedReturns(1, EmbedLive, BackendConc)
    \/ Gen2Returns(1, GenSecondLite)
    \/ RetryWake(1)

SpecLive == Init /\ [][NextLive]_vars /\ Fairness

\* POST /chat requests for one session, in flight together: the coroutines
\* interleave at their awaits
NextConc ==
    \E r \in Reqs :
        \/ ChatReceiveConcurrent(r)
        \/ Gen1Returns(r, GenFirstLite)
        \/ EmbedReturns(r, EmbedLite, BackendConc)
        \/ Gen2Returns(r, GenSecondConc)
        \/ RetryWake(r)

SpecConc == Init /\ [][NextConc]_vars

\* calls of generate_chat_response, one at a time, against every behaviour
\* of the generation model, the embedder and the catalog index
NextLLM ==
    \/ CallGenerate(1)
    \/ Gen1Returns(1, GenFirstFull)
    \/ EmbedReturns(1, EmbedFull, BackendFull)
    \/ Gen2Returns(1, GenSecondFull)
    \/ RetryWake(1)

SpecLLM == Init /\ [][NextLLM]_vars

-----------------------------------------------------------------------------
(* Claims *)

\* C1: for every session id, after n add_message calls that returned normally
\* with no clear_session in between, get_messages returns exactly those n
\* turns in call order.
C1_GetTurnsReturnsAppended ==
    \A sid \in Sids : get_messages(store, sid) = appended[sid]

C1_Witness ==
    \E sid \in Sids :
        /\ Len(appended[sid]) = 2
        /\ appended[sid][1] # appended[sid][2]
        /\ get_messages(store, sid) = appended[sid]

\* C2: a request through the chat route with a non-empty message, no session
\* id and no context gets a new session, and once the request has completed
\* get_messages of that session returns exactly two turns: the user turn with
\* the message, then the assistant turn with the reply content.
C2_NewSessionHoldsUserThenAssistant ==
    \A r \in Reqs :
        LET rq == req[r]
        IN  ( /\ rq.caller = "route" /\ rq.pc = "done"
              /\ Truthy(rq.message) /\ rq.session_id = NoSid /\ rq.quiz_in = PyNone )
            => /\ rq.created /\ rq.sid \in Uuids
               /\ rq.out.kind = "reply"
               /\ get_messages(store, rq.sid) =
                      <<ChatMessage("user", rq.message),
                        ChatMessage("assistant", rq.out.response.content)>>

C2_Witness ==
    \E r \in Reqs :
        /\ req[r].caller = "route" /\ req[r].pc = "done"
        /\ Truthy(req[r].message) /\ req[r].session_id = NoSid
        /\ req[r].quiz_in = PyNone
        /\ req[r].out.kind = "reply"
        /\ req[r].out.response.function_called
        /\ Len(get_messages(store, req[r].sid)) = 2

\* a response message that is a direct text answer: no tool call, and content
DirectText(msg) == msg.function_call = NoCall /\ msg.content # None

\* C3 (as amended): when the response to the request's first generation call
\* is a direct text answer, generate_chat_response makes exactly one
\* generation call, no embedding and no search call, and returns a reply with
\* function_called = false whose content is that text with leading and
\* trailing whitespace stripped.
C3_DirectReplyStripped ==
    \A r \in Reqs :
        LET rq == req[r]
        IN  DirectText(rq.resp1)
            => /\ rq.pc = "done" /\ rq.llm = "returned"
               /\ rq.n_gen1 + rq.n_gen2 = 1
               /\ rq.n_embed = 0 /\ rq.n_get_collection = 0 /\ rq.n_search = 0
               /\ rq.out.response.function_called = FALSE
               /\ rq.out.response.content = Strip(rq.resp1.content)

\* C3 as stated: ... whose content is the model's direct text.
C3_Original_ContentIsDirectText ==
    \A r \in Reqs :
        LET rq == req[r]
        IN  DirectText(rq.resp1)
            => /\ rq.pc = "done" /\ rq.llm = "returned"
               /\ rq.n_gen1 + rq.n_gen2 = 1
               /\ rq.n_embed = 0 /\ rq.n_get_collection = 0 /\ rq.n_search = 0
               /\ rq.out.response.function_called = FALSE
               /\ rq.out.response.content = rq.resp1.content

C3_Witness ==
    \E r \in Reqs :
        /\ DirectText(req[r].resp1) /\ req[r].resp1.content = T_TRY
        /\ req[r].pc = "done" /\ req[r].out.kind = "returned"
        /\ req[r].n_gen1 = 1

\* a response message that invokes query_supplements with a mapping that holds
\* a non-empty question
ToolCallWithQuestion(msg) ==
    /\ msg.function_call.name = "query_supplements"
    /\ msg.function_call.arguments.shape = "mapping"
    /\ Truthy(msg.function_call.arguments.question)

\* what C4 says of an attempt whose first response is such a tool call, given
\* how the final content is to relate to the text of the second call's reply
C4_Body(stripped) ==
    \A r \in Reqs :
        LET rq == req[r]
            question == rq.fmsg.function_call.arguments.question
        IN  ToolCallWithQuestion(rq.fmsg)
            => /\ rq.pc \in {"embed", "gen2", "sleep", "done"}
               /\ rq.search_args.called =>
                     /\ rq.search_args.query_vector.of = question
                     /\ rq.search_args.limit = 3
               /\ rq.pc # "embed" =>
                     /\ rq.tool_exc # "embed" => rq.search_args.called
                     /\ rq.n_gen2 >= 1
                     /\ rq.messages = rq.first_messages \o
                            <<rq.fmsg,
                              [role |-> "function", name |-> "query_supplements",
                               content |-> Str(rq.products)]>>
               /\ rq.llm = "returned" =>
                     /\ rq.out.response.function_called = TRUE
                     /\ rq.out.response.content =
                            IF stripped THEN Strip(rq.last_text) ELSE rq.last_text

C5_RecommendIffItemsOrKeyword ==
    \A r \in Reqs :
        LET rq == req[r]
            resp == rq.out.response
            items == IF resp.products = NoneList THEN 0 ELSE Len(resp.products)
        IN  rq.pc = "done" /\ rq.llm = "returned"
            => ( resp.recommend <=>
                    \/ items >= 1
                    \/ \E kw \in KEYWORDS, i \in 1..Len(resp.content) :
                          /\ i + Len(kw) - 1 <= Len(resp.content)
                          /\ Lower(SubSeq(resp.content, i, i + Len(kw) - 1)) = kw )

C5_Witness ==
    \E r \in Reqs :
        /\ req[r].pc = "done" /\ req[r].llm = "returned"
        /\ req[r].out.response.products = <<>>
        /\ req[r].out.response.recommend

\* C6: a request that supplies no user message is rejected before any state
\* mutation and before any external call: the step that handles it creates no
\* session, appends no turn, stores no context and issues no generation,
\* embedding or search call.
C6_NoMessageRejectedBeforeAnyEffect ==
    [][ \A r \in Reqs :
            req'[r].nomsg /\ req'[r] # req[r]
            => /\ req'[r].pc = "done" /\ req'[r].out.kind = "http_error"
               /\ store' = store /\ quiz_answers' = quiz_answers
               /\ appended' = appended
               /\ ~req'[r].created /\ req'[r].sid = NoSid
               /\ req'[r].n_gen1 = 0 /\ req'[r].n_gen2 = 0
               /\ req'[r].n_embed = 0 /\ req'[r].n_get_collection = 0
               /\ req'[r].n_search = 0 ]_vars

C6_Witness ==
    \E r \in Reqs :
        /\ req[r].nomsg /\ req[r].pc = "done" /\ req[r].out.kind = "http_error"
        /\ served = 2 /\ DOMAIN store # {}

\* C7: a non-transient failure during generate_chat_response is never
\* retried: only a transient failure is followed by another attempt.
C7_NonTransientNeverRetried ==
    \A r \in Reqs : req[r].pc = "sleep" => req[r].last_exc.transient

\* C8: a generation call that fails transiently on every attempt is attempted
\* at most 3 times in one request, and after the 3 attempts the failure is
\* raised to the caller of generate_chat_response.
C8_ThreeAttemptsThenRaised ==
    \A r \in Reqs :
        LET rq == req[r]
        IN  /\ rq.attempt <= 3 /\ rq.n_gen1 <= 3 /\ rq.n_gen2 <= 3
            /\ rq.n_transient <= 3
            /\ rq.n_transient = 3 =>
                  /\ rq.pc = "done" /\ rq.llm = "raised" /\ rq.out.kind = "raised"

C8_Witness ==
    \E r \in Reqs :
        /\ req[r].n_transient = 3 /\ req[r].n_gen2 >= 1
        /\ req[r].pc = "done" /\ req[r].llm = "raised"

\* a response message whose tool call carries arguments that do not parse or
\* are not a mapping
BadArguments(msg) ==
    /\ msg.function_call # NoCall
    /\ msg.function_call.arguments.shape \in {"malformed", "nonmapping"}

\* C9: when the model invokes the tool with a malformed or non-mapping
\* argument payload the request is not aborted: the tool counts as having
\* produced zero items and the second generation call is issued.
C9_BadArgumentsGiveZeroItems ==
    \A r \in Reqs :
        LET rq == req[r]
        IN  BadArguments(rq.fmsg)
            => /\ rq.products = <<>>
               /\ Len(rq.messages) = Len(rq.first_messages) + 2
               /\ rq.llm = "returned" => rq.out.response.products = <<>>

\* C10: a failure of the embedding call or of the vector search during a tool
\* invocation is propagated out of generate_chat_response; it is never turned
\* into an empty item list followed by a second generation call and a reply.
C10_ToolFailurePropagates ==
    \A r \in Reqs :
        req[r].tool_exc # "none" => req[r].pc # "gen2" /\ req[r].llm # "returned"

\* C11: for every query vector whose length differs from the configured index
\* dimensionality, query_qdrant fails with a dimension-mismatch error and
\* issues no network call to the backend, in particular no similarity search.
C11_MismatchFailsWithoutNetworkCall ==
    ret.op = "query_qdrant" /\ ret.query_vector.dim # VectorSize
    => /\ ret.raised /\ ret.exc = "ValueError"
       /\ ret.n_get_collection = 0 /\ ret.n_search = 0

C11_Witness ==
    /\ ret.op = "query_qdrant" /\ ret.query_vector.dim # VectorSize
    /\ ret.raised /\ ret.exc = "ValueError"
    /\ ret.n_get_collection = 1 /\ ret.n_search = 0

\* C12: add_message fails for every turn whose role or content is missing or
\* empty and succeeds only for turns with a non-empty role and non-empty
\* content: every turn of a call that returned normally has both.
C12_OnlyNonEmptyTurnsAccepted ==
    \A sid \in Sids : \A i \in 1..Len(appended[sid]) :
        /\ appended[sid][i].role # ""
        /\ Truthy(appended[sid][i].content)

C12_Witness ==
    /\ ret.op = "add_message" /\ ~ret.raised
    /\ Len(appended[ret.sid]) = 1
    /\ appended[ret.sid][1].role = "" /\ appended[ret.sid][1].content = <<>>

\* C13: a call of add_message or store_quiz_answers that is rejected leaves
\* the store as it was: the known session ids, every turn sequence and every
\* stored context are unchanged, also when the session id was unknown.
C13_RejectedCallChangesNothing ==
    [][ ret'.op \in {"add_message", "store_quiz_answers"} /\ ret'.raised
        => store' = store /\ quiz_answers' = quiz_answers ]_vars

C13_Witness ==
    /\ ret.op = "add_message" /\ ret.raised
    /\ ret.sid \in DOMAIN store /\ store[ret.sid] = <<>>
    /\ appended[ret.sid] = <<>>

\* a turn with a non-empty role and a non-empty content
ValidTurn(t) ==
    /\ IsDict(t) /\ "role" \in DOMAIN t /\ "content" \in DOMAIN t
    /\ t.role # "" /\ Truthy(t.content)

IsPrefix(s, t) == Len(s) <= Len(t) /\ SubSeq(t, 1, Len(s)) = s

\* C17: clear_session on a known session resets that session's turns to empty
\* while the id stays known and the stored context is unchanged; and no step
\* other than a clear_session of a session removes or reorders a turn of it.
C17_OnlyClearRemovesTurns ==
    [][ /\ ret'.op = "clear_session" /\ ret'.sid \in DOMAIN store
           => /\ store' = [store EXCEPT ![ret'.sid] = <<>>]
              /\ quiz_answers' = quiz_answers
        /\ \A sid \in DOMAIN store :
              /\ sid \in DOMAIN store'
              /\ \/ IsPrefix(store[sid], store'[sid])
                 \/ ret'.op = "clear_session" /\ ret'.sid = sid ]_vars

C17_Witness ==
    /\ ret.op = "clear_session" /\ ret.sid \in DOMAIN store
    /\ store[ret.sid] = <<>>
    /\ ret.sid \in DOMAIN quiz_answers
    /\ \E sid \in DOMAIN store : store[sid] # <<>>

\* C18: when several requests for the same session are in flight together,
\* every add_message is atomic: under every interleaving no appended turn is
\* lost or partially written, so the history holds each appended turn exactly
\* once, in the order the add_message calls arrived.
C18_ConcurrentAppendsAllKept ==
    \A sid \in Sids :
        LET history == IF sid \in DOMAIN store THEN store[sid] ELSE <<>>
        IN  /\ Len(history) = Len(appended[sid])
            /\ \A i \in 1..Len(history) :
                  /\ history[i] = appended[sid][i]
                  /\ DOMAIN history[i] = {"role", "content", "timestamp"}

C18_Witness ==
    /\ \A r \in Reqs : req[r].pc = "done" /\ req[r].sid = "s1"
    /\ req[1].message # req[2].message
    /\ Len(store["s1"]) = 4
    /\ store["s1"][1].role = "user" /\ store["s1"][2].role = "user"
    /\ store["s1"][3].content # store["s1"][4].content

\* C19: when generate_chat_response fails without recovery (after its
\* retries), the route returns a generic apology reply with recommend = false
\* instead of an error, and appends that apology as the assistant turn of the
\* session.
C19_UnrecoveredFailureGivesApology ==
    \A r \in Reqs :
        LET rq == req[r]
        IN  rq.caller = "route" /\ rq.pc = "done" /\ rq.llm = "raised"
            => /\ rq.attempt = 3
               /\ rq.out.kind = "reply" /\ rq.out.status = 200
               /\ rq.out.response.role = "assistant"
               /\ rq.out.response.content = APOLOGY
               /\ rq.out.response.recommend = FALSE
               /\ rq.out.response.products = NoneList
               /\ rq.sid \in DOMAIN store /\ store[rq.sid] # <<>>
               /\ store[rq.sid][Len(store[rq.sid])] =
                      [role |-> "assistant", content |-> APOLOGY,
                       timestamp |-> "utcnow"]

C19_Witness ==
    \E r \in Reqs :
        /\ req[r].caller = "route" /\ req[r].pc = "done" /\ req[r].llm = "raised"
        /\ req[r].n_gen2 >= 1 /\ req[r].n_search >= 1
        /\ req[r].out.response.content = APOLOGY
        /\ Len(store[req[r].sid]) = 2

\* C20: the result of query_qdrant is the hits the backend returned whose
\* conversion to a Product succeeds, in the backend's order: a hit whose
\* conversion fails is skipped without failing the search, no other hit is
\* dropped, and the kept items are not re-sorted.
C20_ResultIsConvertibleHitsInOrder ==
    ret.op = "query_qdrant" /\ ret.n_search = 1 /\ ret.exc # "ResponseHandlingException"
    => LET convertible == {i \in 1..Len(ret.returned) : ret.returned[i].valid}
           Rank(i) == Cardinality({j \in convertible : j <= i})
       IN  /\ ~ret.raised
           /\ Len(ret.products) = Cardinality(convertible)
           /\ \A i \in convertible : ret.products[Rank(i)] = ret.returned[i].id

C20_Witness ==
    /\ ret.op = "query_qdrant" /\ ~ret.raised
    /\ Len(ret.returned) = 3
    /\ ret.returned[1].id = "p2" /\ ~ret.returned[2].valid /\ ret.returned[3].id = "p1"
    /\ ret.products = <<"p2", "p1">>

\* the values of a category of a context: the list under key when the context
\* is a non-empty dict that has it
CategoryValues(context, key) ==
    IF context = PyNone \/ context = EmptyDict \/ key \notin DOMAIN context
    THEN <<>> ELSE context[key]

\* one rendered line: the label, then the values with ", " between them
RenderedLine(label, values) ==
    <<label>> \o [i \in 1..(2 * Len(values) - 1) |->
                     IF i % 2 = 1 THEN values[(i + 1) \div 2] ELSE ", "]

\* C21: build_system_prompt returns the base instruction unchanged when the
\* context is absent, empty, or has every category empty; otherwise it appends
\* a block with one line per non-empty category in the order health goals,
\* current symptoms, dietary preferences (from under the preferences key),
\* each "<Label>: <comma-joined values>", and no line for an empty category.
C21_PromptListsNonEmptyCategories ==
    ret.op = "build_system_prompt"
    => LET goals    == CategoryValues(ret.context, "health_goals")
           symptoms == CategoryValues(ret.context, "symptoms")
           dietary  == CategoryValues(CategoryValues(ret.context, "preferences"),
                                      "dietary")
           l1 == IF goals = <<>> THEN <<>>
                 ELSE <<RenderedLine("Health goals: ", goals)>>
           l2 == IF symptoms = <<>> THEN <<>>
                 ELSE <<RenderedLine("Current symptoms: ", symptoms)>>
           l3 == IF dietary = <<>> THEN <<>>
                 ELSE <<RenderedLine("Dietary preferences: ", dietary)>>
           lines == l1 \o l2 \o l3
           block == CASE Len(lines) = 1 -> lines[1]
                      [] Len(lines) = 2 -> lines[1] \o <<"\n">> \o lines[2]
                      [] Len(lines) = 3 -> lines[1] \o <<"\n">> \o lines[2]
                                           \o <<"\n">> \o lines[3]
                      [] OTHER -> <<>>
       IN  /\ ~ret.raised
           /\ ret.value = IF lines = <<>> THEN DEFAULT_SYSTEM_PROMPT
                          ELSE DEFAULT_SYSTEM_PROMPT
                               \o <<"\n\nAdditional context:\n">> \o block

C21_Witness ==
    /\ ret.op = "build_system_prompt"
    /\ "health_goals" \in DOMAIN ret.context /\ ret.context.health_goals = <<>>
    /\ "dietary" \in DOMAIN ret.context
    /\ ret.value = DEFAULT_SYSTEM_PROMPT \o <<"\n\nAdditional context:\n">>
                   \o <<"Current symptoms: ", "fatigue", ", ", "stress", "\n",
                        "Dietary preferences: ", "vegan", ", ", "keto">>

\* C22: for every session, get_quiz_answers returns the context most recently
\* stored for it by a successful store_quiz_answers (a later store replaces
\* the earlier one entirely) and None if none was ever stored; a request
\* without quiz answers builds its system prompt from the context stored by
\* an earlier request of the same session.  Stated on the steps: only a
\* successful store changes the stored contexts, and only that of its session,
\* to exactly the answers given; get returns what is stored; an accepted
\* request that brings answers stores them, one that brings none builds
\* its prompt from what is stored for its session.
C22_ContextIsLastStored ==
    [][ LET direct == served' = served /\ req' = req
            stored(qa, sid) == IF sid \in DOMAIN qa THEN qa[sid] ELSE PyNone
            SetTo(sid, answers) ==
                /\ DOMAIN quiz_answers' = DOMAIN quiz_answers \cup {sid}
                /\ quiz_answers'[sid] = answers
                /\ \A s \in DOMAIN quiz_answers \ {sid} :
                      quiz_answers'[s] = quiz_answers[s]
        IN  /\ direct /\ ret'.op = "store_quiz_answers" =>
                  IF ret'.raised THEN quiz_answers' = quiz_answers
                  ELSE SetTo(ret'.sid, ret'.answers)
            /\ direct /\ ret'.op = "get_quiz_answers" =>
                  /\ quiz_answers' = quiz_answers
                  /\ ret'.value = stored(quiz_answers, ret'.sid)
            /\ \A r \in Reqs :
                  LET rq == req'[r]
                  IN  /\ served' = served /\ req'[r] # req[r] =>
                            quiz_answers' = quiz_answers
                      /\ served' = served + 1 /\ rq.pc = "gen1" =>
                            IF TruthyObj(rq.quiz_in)
                            THEN /\ SetTo(rq.sid, rq.quiz_in)
                                 /\ rq.system_prompt = build_system_prompt(rq.quiz_in)
                            ELSE /\ quiz_answers' = quiz_answers
                                 /\ rq.system_prompt =
                                        build_system_prompt(stored(quiz_answers, rq.sid))
                      /\ served' = served + 1 /\ rq.pc = "done" =>
                            quiz_answers' = quiz_answers ]_vars

C22_Witness ==
    /\ req[1].caller = "route" /\ req[1].pc = "gen1" /\ served = 2
    /\ req[1].quiz_in = PyNone
    /\ req[1].sid \in ClientSids
    /\ ret.op = "init"
    /\ req[1].system_prompt =
           DEFAULT_SYSTEM_PROMPT \o <<"\n\nAdditional context:\n">>
                                 \o <<"Current symptoms: ", "fatigue">>

\* C23: the retry is applied to each generation call separately: once the
\* second generation call of a request has been issued, the first generation
\* call is not issued again by a later attempt, and the embedding and the
\* vector search run at most once per request.
C23_RetryRepeatsOnlyFailedCall ==
    \A r \in Reqs :
        LET rq == req[r]
        IN  /\ rq.pc = "gen1" /\ rq.attempt > 1 => rq.n_gen2 = 0
            /\ rq.n_embed <= 1
            /\ rq.n_search <= 1

\* the second generation call has failed and the request waits for its retry
C23_Witness ==
    \E r \in Reqs :
        /\ req[r].pc = "sleep" /\ req[r].n_gen2 = 1 /\ req[r].n_search = 1
        /\ req[r].attempt = 1

\* C24: within one request the tool-call pass and the direct-reply pass are
\* never both attempted: a request that ends with a direct reply (no tool
\* called) has issued no second generation call and no embedding call in any
\* of its attempts.
C24_OnePassKindPerRequest ==
    \A r \in Reqs :
        LET rq == req[r]
        IN  /\ rq.pc = "done" /\ rq.llm = "returned"
            /\ ~rq.out.response.function_called
            => rq.n_gen2 = 0 /\ rq.n_embed = 0

\* a request that needed several attempts ends with a direct reply
C24_Witness ==
    \E r \in Reqs :
        /\ req[r].pc = "done" /\ req[r].llm = "returned"
        /\ ~req[r].out.response.function_called
        /\ req[r].attempt = 3

\* role and content of the turns of a history
RoleContent(turns) ==
    [i \in 1..Len(turns) |-> [role |-> turns[i].role, content |-> turns[i].content]]

\* C25: the message list a request through the route sends on its first
\* generation call is one system turn, the session's prior turns in stored
\* order, and the new user turn exactly once, as the last element; the new
\* user message does not also appear among the prior turns.  While the first
\* call of the first attempt is in flight the session holds the prior turns
\* followed by the new user turn.
C25_NewUserTurnSentOnce ==
    \A r \in Reqs :
        LET rq == req[r]
            prior == SubSeq(store[rq.sid], 1, Len(store[rq.sid]) - 1)
        IN  rq.caller = "route" /\ rq.pc = "gen1" /\ rq.attempt = 1 =>
                rq.first_messages =
                    <<[role |-> "system", content |-> rq.system_prompt]>>
                    \o RoleContent(prior)
                    \o <<[role |-> "user", content |-> rq.message]>>

\* the first generation call of a request of a session with earlier turns
C25_Witness ==
    \E r \in Reqs :
        /\ req[r].caller = "route" /\ req[r].pc = "gen1" /\ req[r].attempt = 1
        /\ Len(store[req[r].sid]) = 3

\* user and assistant turns alternate, starting with a user turn and ending
\* with an assistant turn
Paired(turns) ==
    /\ Len(turns) % 2 = 0
    /\ \A i \in 1..Len(turns) :
          turns[i].role = IF i % 2 = 1 THEN "user" ELSE "assistant"

\* C26: with requests handled one at a time, whenever no request is in
\* flight every session history has even length and its roles alternate
\* user, assistant: no finished request, a request whose quiz answers are
\* rejected included, leaves a user turn without a following assistant turn.
C26_FinishedRequestsLeavePairs ==
    (\A r \in Reqs : ~InFlight(r)) => \A s \in DOMAIN store : Paired(store[s])

\* a request whose quiz answers were rejected has finished with an error
C26_Witness ==
    \E r \in Reqs :
        /\ req[r].caller = "route" /\ req[r].pc = "done"
        /\ req[r].out.kind = "http_error"
        /\ Truthy(req[r].message)
        /\ req[r].quiz_in = NotADictQuiz

\* C27: the prior turns a request sends are those that were in the session
\* when it fetched the history: in every attempt, retries included, the
\* message list of the first generation call is the system turn, the turns
\* fetched, and the user message; turns appended afterwards by other
\* requests running concurrently are not in it.
C27_SendsTurnsAsFetched ==
    \A r \in Reqs :
        LET rq == req[r]
        IN  rq.caller = "route" /\ rq.pc \in {"gen1", "embed", "gen2"} =>
                /\ rq.first_messages =
                       _format_messages(rq.message, rq.chat_history.val, rq.system_prompt)
                /\ SubSeq(rq.messages, 1, Len(rq.first_messages)) = rq.first_messages

\* a retry attempt of a request whose session got turns from another request
\* after the fetch
C27_Witness ==
    \E r \in Reqs :
        /\ req[r].caller = "route" /\ req[r].pc = "gen1" /\ req[r].attempt = 2
        /\ Len(store[req[r].sid]) > Len(req[r].chat_history.val)

\* turns and context the store holds for a session; an unknown session is
\* told apart from a known empty one
SessionState(st, qa, s) ==
    [known |-> s \in DOMAIN st,
     turns |-> IF s \in DOMAIN st THEN st[s] ELSE <<>>,
     context |-> IF s \in DOMAIN qa THEN qa[s] ELSE PyNone]

\* C28: sessions are isolated: no store operation and no request addressed
\* to one session (create_session, add_message, clear_session,
\* store_quiz_answers, a chat request from its arrival to its reply) changes
\* the turns or the stored context of any other session.  A step of a store
\* operation addresses the session of its call, a step of a request the
\* session the request uses.
C28_SessionsIsolated ==
    [][ LET addressed == IF served' = served /\ req' = req
                         THEN ret'.sid ELSE req'[1].sid
        IN  \A s \in Sids \ {addressed} :
                SessionState(store', quiz_answers', s)
                    = SessionState(store, quiz_answers, s) ]_vars

\* two sessions with turns and context, one of them being changed by a request
C28_Witness ==
    /\ req[1].pc = "gen1" /\ req[1].sid = "s1"
    /\ {"s1", "u1"} \subseteq DOMAIN store
    /\ Len(store["s1"]) = 3
    /\ store["u1"] # <<>>
    /\ {"s1", "u1"} \subseteq DOMAIN quiz_answers
    /\ quiz_answers["s1"] # quiz_answers["u1"]

\* C29: provided every external call eventually returns or fails, every
\* request eventually finishes, with a reply or an error; and per request
\* the attempts, the generation calls of either kind, the embedding calls and
\* the vector searches number at most 3 each, whatever the external calls
\* do, failing every time included.
C29_RequestsTerminateBounded ==
    /\ [](\A r \in Reqs :
            /\ req[r].attempt <= MaxAttempts
            /\ req[r].n_gen1 <= MaxAttempts /\ req[r].n_gen2 <= MaxAttempts
            /\ req[r].n_embed <= MaxAttempts /\ req[r].n_search <= MaxAttempts
            /\ req[r].n_get_collection <= MaxAttempts)
    /\ \A r \in Reqs :
          InFlight(r) ~> (req[r].pc = "done" /\ req[r].out.kind \in {"reply", "http_error"})

\* a request has finished after the tool ran and the second generation call
\* failed in each of its three attempts
C29_Witness ==
    \E r \in Reqs :
        /\ req[r].caller = "route" /\ req[r].pc = "done"
        /\ req[r].attempt = 3 /\ req[r].n_gen1 = 3 /\ req[r].n_gen2 = 3
        /\ req[r].n_embed = 3
        /\ req[r].out.kind = "reply"

=============================================================================
